---- MODULE Spec2Model ----
(***************************************************************************)
(* The dialog plugin of Durandal (src/src/plugins/js/dialog.js) as a state *)
(* machine.  One show call is one entry of the sequences shows, dfd,       *)
(* activeItem, theDialog, hooks and hist (its index is the call's          *)
(* identity); the asynchronous answers of system.acquire and of the        *)
(* activator are separate actions, so that any interleaving of calls and   *)
(* continuations is a behaviour.                                           *)
(***************************************************************************)
EXTENDS Integers, Sequences, FiniteSets, Bags, TLC

\* ---------------------------------------------------------------- bounds
MaxShows == 2       \* show calls in one behaviour
MaxCalls == 2       \* calls of close and getNextZIndex from outside the plugin
ScrollbarWidth == 1 \* px the body widens by when the scrollbar disappears

\* ------------------------------------------------------------- constants
InitialZIndex == 1050

Owners == {"o1", "o2"}            \* objects shown as dialogs
ModuleIds == {"m1"}               \* strings passed to show as moduleId
Null == "null"                    \* a null/undefined obj
NoModule == ""                    \* no moduleId is being acquired
Undefined == 0                    \* obj.__dialog__ absent
Args == {<<>>, <<"X">>}           \* argument lists of close: close(), close('X')
NoData == <<>>                    \* show called without activationData
FalseArgs == <<"false">>          \* the argument list of dfd.resolve(false)
NoMargin == [set |-> FALSE, px |-> 0]   \* the inline style '' of margin-right
InlineMargins == {NoMargin, [set |-> TRUE, px |-> 3]}

Omitted == "omitted"              \* an argument left out (undefined)
ContextNames == {"", "confirm", "Confirm", "default"}   \* names given to addContext
CustomContexts == {"ctxA", "ctxB"}     \* context objects of the application
NotFound == "undefined"           \* contexts[name] of a name never registered
NoContext == "none"               \* no context has run the hook yet
CustomHost == -1                  \* the host element a custom context creates

defaultTitle == "Application"     \* MessageBox.defaultTitle (app.title is not set)
defaultOptions == <<"Ok">>        \* MessageBox.defaultOptions
NoOptions == <<"undefined">>      \* the options argument left out
\* argument lists of showMessage: all three given, title and options left out,
\* and an empty title
MessageArgs == {<<"Hi", "Title", <<"Yes", "No">>>>,
                <<"Hi", Omitted, NoOptions>>,
                <<"Hi", "", <<"Yes", "No">>>>}
Choices == {"Yes", "No"}          \* what the user picks in a message box
\* the object made by the new MessageBox(...) of the c-th show call
MessageBoxId(c) == "mb" \o ToString(c)

VARIABLES
    contexts,       \* contexts: name -> DialogContext object
    helpers,        \* the show<Name> methods addContext put on dialog: method
                    \* name -> the context name its closure holds
    ctxName,        \* the name property of every context object
    MessageBox,     \* dialog.MessageBox (the constructor or a moduleId) and the
                    \* getView of the constructor's prototype
    app,            \* whether app has showDialog and showMessage
    messageBoxes,   \* the MessageBox objects constructed: message, title, options
    dialogCount,    \* dialogCount
    currentZIndex,  \* dialog.currentZIndex
    dialogOf,       \* obj.__dialog__ of every owner: a call index, or Undefined
    shows,          \* per show call: the moduleId being acquired, instance,
                    \* activationData, dialogContext, and how far the call
                    \* has come
    dfd,            \* per show call: the deferred whose promise show returned
    activeItem,     \* per show call: whether dialogActivator holds instance active
    theDialog,      \* per show call: host, blockout and recorded margins
    hooks,          \* per show call: how often addHost, removeHost, compose ran,
                    \* the host compose was given, the call's place in the
                    \* order of the addHost calls, and the context objects
                    \* whose addHost and removeHost ran
    hist,           \* per show call: how many deactivations the activator
                    \* accepted, and whether it declined one
    pending,        \* bag of deactivation requests not yet answered
    htmlOverflowHidden,  \* html has overflow-y: hidden
    bodyMarginRight,     \* inline style margin-right of body
    zLog,           \* every value getNextZIndex has returned, in order
    apiCalls        \* calls of close and getNextZIndex made so far

vars == <<contexts, helpers, ctxName, MessageBox, app, messageBoxes, dialogCount,
          currentZIndex, dialogOf, shows, dfd, activeItem,
          theDialog, hooks, hist, pending, htmlOverflowHidden,
          bodyMarginRight, zLog, apiCalls>>

Calls == 1..Len(shows)

\* ------------------------------------------------------ external services
\* system.isString
isString(obj) == obj \in ModuleIds

\* system.resolveObject: the module m1 exports the object o2
resolveObject(module) == "o2"

\* A deferred (system.defer): resolve settles a pending deferred and is ignored
\* by a settled one.
PendingDfd == [state |-> "pending", value |-> <<>>]

DfdResolve(d, args) ==
    IF d.state = "pending" THEN [state |-> "resolved", value |-> args] ELSE d

\* The activator's answer to deactivateItem(instance, true): an item that is not
\* active is deactivated already, which succeeds; an active one may be vetoed.
DeactivationAnswers(c) == IF activeItem[c] THEN BOOLEAN ELSE {TRUE}

\* ----------------------------------------------------------- the plugin
\* getNextZIndex: return ++this.currentZIndex
getNextZIndex_NoIncrement(z) == [value |-> z + 1, currentZIndex |-> z]

getNextZIndex(z) == [value |-> z + 1, currentZIndex |-> z + 1]

\* isOpen
isOpen_AtLeastZero == dialogCount >= 0

isOpen == dialogCount > 0

\* A string argument that || takes for false: left out, or the empty string
Falsy(value) == value \in {Omitted, ""}

\* getContext(name): contexts[name || 'default'], undefined when the registry
\* has no such property
getContext(name) ==
    LET key == IF Falsy(name) THEN "default" ELSE name
    IN  IF key \in DOMAIN contexts THEN contexts[key] ELSE NotFound

\* String.prototype.toUpperCase, on the first letters of ContextNames
toUpperCase(ch) == CASE ch = "c" -> "C" [] ch = "d" -> "D" [] OTHER -> ch

\* String.prototype.substr(start, length)
substr(str, start, length) ==
    SubSeq(str, start + 1, IF start + length < Len(str) THEN start + length
                                                        ELSE Len(str))

\* 'show' + name.substr(0, 1).toUpperCase() + name.substr(1)
helperName(name) ==
    "show" \o toUpperCase(substr(name, 0, 1)) \o substr(name, 1, Len(name))

\* getDialog(obj)
getDialog(obj) == IF obj # Null THEN dialogOf[obj] ELSE Undefined

NoSettings == [model |-> Null, activate |-> FALSE, attached |-> FALSE,
               compositionComplete |-> FALSE]

NoDialog == [settings |-> NoSettings, host |-> 0, blockout |-> 0, el |-> "absent",
             recorded |-> FALSE, oldBodyMarginRight |-> 0,
             oldInlineMarginRight |-> NoMargin]

NoHooks == [addHost |-> 0, removeHost |-> 0, compose |-> 0, composeHost |-> 0,
            order |-> 0, addHostOn |-> NoContext, removeHostOn |-> NoContext]

NoHist == [accepted |-> 0, declined |-> FALSE]

\* The module has run: dialog.addContext('default', {...}) has registered the
\* built-in context, and dialog.MessageBox is the MessageBox constructor.
Init ==
    /\ contexts = [n \in {"default"} |-> "defaultContext"]
    /\ helpers = [h \in {helperName("default")} |-> "default"]
    /\ ctxName = [x \in CustomContexts \cup {"defaultContext"} |->
                     IF x = "defaultContext" THEN "default" ELSE NotFound]
    /\ MessageBox = [value |-> "MessageBox", getView |-> "defaultViewMarkup"]
    /\ app = [showDialog |-> FALSE, showMessage |-> FALSE]
    /\ messageBoxes = <<>>
    /\ dialogCount = 0
    /\ currentZIndex = InitialZIndex
    /\ dialogOf = [o \in Owners \cup {MessageBoxId(c) : c \in 1..MaxShows} |->
                      Undefined]
    /\ shows = <<>>
    /\ dfd = <<>>
    /\ activeItem = <<>>
    /\ theDialog = <<>>
    /\ hooks = <<>>
    /\ hist = <<>>
    /\ pending = EmptyBag
    /\ htmlOverflowHidden = FALSE
    /\ bodyMarginRight \in InlineMargins
    /\ zLog = <<>>
    /\ apiCalls = 0

\* show(obj, activationData, context), up to the first asynchronous answer:
\* the context is looked up at once, and an object is handed to a fresh
\* activator while a moduleId is first acquired.
show(obj, activationData, context) ==
    /\ shows' = Append(shows,
                  [moduleId |-> IF isString(obj) THEN obj ELSE NoModule,
                   instance |-> IF isString(obj) THEN Null ELSE obj,
                   activationData |-> activationData,
                   context |-> getContext(context),
                   stage |-> IF isString(obj) THEN "acquiring" ELSE "activating"])
    /\ dfd' = Append(dfd, PendingDfd)
    /\ activeItem' = Append(activeItem, FALSE)
    /\ theDialog' = Append(theDialog, NoDialog)
    /\ hooks' = Append(hooks, NoHooks)
    /\ hist' = Append(hist, NoHist)

\* What a call of dialog.show (or this.show) runs.  It is show, unless
\* addContext('') has stored its helper under the name 'show': that helper
\* calls this.show, which is itself, and the call ends in a RangeError with
\* nothing changed (no step).
dialogShow(obj, activationData, context) ==
    /\ "show" \notin DOMAIN helpers
    /\ show(obj, activationData, context)

\* A call of dialog.show by application code.  The context named is a
\* registered one (or none is named): with an unregistered name dialogContext
\* is undefined and the activation continuation throws.
Show(obj, context) ==
    /\ Len(shows) < MaxShows
    /\ dialogShow(obj, NoData, context)
    /\ UNCHANGED <<contexts, helpers, ctxName, MessageBox, app, messageBoxes,
                   dialogCount, currentZIndex, dialogOf, pending,
                   htmlOverflowHidden, bodyMarginRight, zLog, apiCalls>>

\* ensureDialogInstance: the continuation of system.acquire(moduleId).  Only a
\* success continuation is attached: a failed acquire runs no code of the plugin.
AcquireDone(c, ok) ==
    /\ c \in Calls
    /\ shows[c].stage = "acquiring"
    /\ shows' = [shows EXCEPT ![c] =
                   IF ok
                   THEN [@ EXCEPT !.instance = resolveObject(@.moduleId),
                                  !.moduleId = NoModule,
                                  !.stage = "activating"]
                   ELSE [@ EXCEPT !.stage = "acquireFailed"]]
    /\ UNCHANGED <<contexts, helpers, ctxName, MessageBox, app, messageBoxes,
                   dialogCount, currentZIndex, dialogOf, dfd, activeItem,
                   theDialog, hooks, hist, pending, htmlOverflowHidden,
                   bodyMarginRight, zLog, apiCalls>>

\* body.css("margin-right"), parsed: the inline margin, or the stylesheet's 0px
bodyComputedMarginRight == IF bodyMarginRight.set THEN bodyMarginRight.px ELSE 0

\* createCompositionSettings(obj, dialogContext): the default context defines
\* compositionComplete and no attached hook, a context of the application
\* defines neither.
createCompositionSettings(obj, dialogContext) ==
    [model |-> obj, activate |-> FALSE, attached |-> FALSE,
     compositionComplete |-> dialogContext = "defaultContext"]

addHost_HostFirst(c) ==
    LET zHost == getNextZIndex(currentZIndex)
        zBlockout == getNextZIndex(zHost.currentZIndex)
        first == ~isOpen
        gained == IF htmlOverflowHidden THEN 0 ELSE ScrollbarWidth
    IN  /\ currentZIndex' = zBlockout.currentZIndex
        /\ zLog' = zLog \o <<zHost.value, zBlockout.value>>
        /\ theDialog' = [theDialog EXCEPT ![c] =
              [settings |-> createCompositionSettings(shows[c].instance,
                                                      shows[c].context),
               host |-> zHost.value, blockout |-> zBlockout.value, el |-> "mounted",
               recorded |-> first,
               oldBodyMarginRight |-> IF first THEN bodyComputedMarginRight ELSE 0,
               oldInlineMarginRight |-> IF first THEN bodyMarginRight ELSE NoMargin]]
        /\ htmlOverflowHidden' = (first \/ htmlOverflowHidden)
        /\ bodyMarginRight' =
              IF first
              THEN [set |-> TRUE, px |-> gained + bodyComputedMarginRight]
              ELSE bodyMarginRight

addHost_ReuseZ(c) ==
    LET zBlockout == getNextZIndex(InitialZIndex)
        zHost == getNextZIndex(zBlockout.currentZIndex)
        first == ~isOpen
        gained == IF htmlOverflowHidden THEN 0 ELSE ScrollbarWidth
    IN  /\ currentZIndex' = zHost.currentZIndex
        /\ zLog' = zLog \o <<zBlockout.value, zHost.value>>
        /\ theDialog' = [theDialog EXCEPT ![c] =
              [settings |-> createCompositionSettings(shows[c].instance,
                                                      shows[c].context),
               host |-> zHost.value, blockout |-> zBlockout.value, el |-> "mounted",
               recorded |-> first,
               oldBodyMarginRight |-> IF first THEN bodyComputedMarginRight ELSE 0,
               oldInlineMarginRight |-> IF first THEN bodyMarginRight ELSE NoMargin]]
        /\ htmlOverflowHidden' = (first \/ htmlOverflowHidden)
        /\ bodyMarginRight' =
              IF first
              THEN [set |-> TRUE, px |-> gained + bodyComputedMarginRight]
              ELSE bodyMarginRight

\* The default context's addHost(theDialog): blockout and host are appended at
\* the next two z-indices; the first dialog to open records the body's margin,
\* hides the scrollbar and widens the margin by what the body gained.
addHost(c) ==
    LET zBlockout == getNextZIndex(currentZIndex)
        zHost == getNextZIndex(zBlockout.currentZIndex)
        first == ~isOpen
        gained == IF htmlOverflowHidden THEN 0 ELSE ScrollbarWidth
    IN  /\ currentZIndex' = zHost.currentZIndex
        /\ zLog' = zLog \o <<zBlockout.value, zHost.value>>
        /\ theDialog' = [theDialog EXCEPT ![c] =
              [settings |-> createCompositionSettings(shows[c].instance,
                                                      shows[c].context),
               host |-> zHost.value, blockout |-> zBlockout.value, el |-> "mounted",
               recorded |-> first,
               oldBodyMarginRight |-> IF first THEN bodyComputedMarginRight ELSE 0,
               oldInlineMarginRight |-> IF first THEN bodyMarginRight ELSE NoMargin]]
        /\ htmlOverflowHidden' = (first \/ htmlOverflowHidden)
        /\ bodyMarginRight' =
              IF first
              THEN [set |-> TRUE, px |-> gained + bodyComputedMarginRight]
              ELSE bodyMarginRight

\* The default context's removeHost(theDialog): host and blockout fade and
\* leave the document removeDelay later ("unmounting" is both); when no dialog
\* is open any more the scrollbar comes back and the margin is restored from
\* what this dialog recorded.
removeHost(c) ==
    /\ theDialog' = [theDialog EXCEPT ![c].el = "unmounting"]
    /\ htmlOverflowHidden' = (isOpen' /\ htmlOverflowHidden)
    /\ bodyMarginRight' =
          IF isOpen' THEN bodyMarginRight
          ELSE IF theDialog[c].recorded /\ theDialog[c].oldInlineMarginRight.set
               THEN [set |-> TRUE, px |-> theDialog[c].oldBodyMarginRight]
               ELSE NoMargin

\* addHost of a context of the application: it adds an element to the document
\* and stores it as theDialog.host, as addHost is expected to.
customAddHost(c) ==
    /\ theDialog' = [theDialog EXCEPT ![c] =
          [NoDialog EXCEPT !.settings =
                              createCompositionSettings(shows[c].instance,
                                                        shows[c].context),
                           !.host = CustomHost, !.el = "mounted"]]
    /\ UNCHANGED <<currentZIndex, zLog, htmlOverflowHidden, bodyMarginRight>>

\* removeHost of a context of the application: it takes the host out
customRemoveHost(c) ==
    /\ theDialog' = [theDialog EXCEPT ![c].el = "unmounting"]
    /\ UNCHANGED <<htmlOverflowHidden, bodyMarginRight>>

\* dialogContext.addHost(theDialog), dialogContext being the object show found
\* in the registry when it was called
dialogContextAddHost(c) ==
    IF shows[c].context = "defaultContext" THEN addHost(c) ELSE customAddHost(c)

\* dialogContext.removeHost(theDialog), on the same object
dialogContextRemoveHost(c) ==
    IF shows[c].context = "defaultContext" THEN removeHost(c)
                                           ELSE customRemoveHost(c)

\* How many show calls have had addHost invoked
Mounts == Cardinality({d \in Calls : hooks[d].addHost > 0})

ShowSucceeded_ComposeFirst(c) ==
    /\ dialogOf' = [dialogOf EXCEPT ![shows[c].instance] = c]
    /\ addHost(c)
    /\ dialogCount' = dialogCount + 1
    /\ hooks' = [hooks EXCEPT ![c].addHost = @ + 1, ![c].compose = @ + 1,
                              ![c].composeHost = theDialog[c].host,
                              ![c].order = Mounts + 1]
    /\ UNCHANGED dfd

\* The continuation of activateItem when success is true (lines 206-227):
\* the Session is attached, addHost mounts it, and its host goes to compose.
ShowSucceeded(c) ==
    /\ dialogOf' = [dialogOf EXCEPT ![shows[c].instance] = c]
    /\ dialogContextAddHost(c)
    /\ dialogCount' = dialogCount + 1
    /\ hooks' = [hooks EXCEPT ![c].addHost = @ + 1, ![c].compose = @ + 1,
                              ![c].composeHost = theDialog'[c].host,
                              ![c].order = Mounts + 1,
                              ![c].addHostOn = shows[c].context]
    /\ UNCHANGED dfd

\* The continuation of activateItem when success is false (line 229).
ShowDeclined(c) ==
    /\ dfd' = [dfd EXCEPT ![c] = DfdResolve(@, FalseArgs)]
    /\ UNCHANGED <<dialogOf, dialogCount, hooks, theDialog, currentZIndex, zLog,
                   htmlOverflowHidden, bodyMarginRight>>

ActivateContinuation_IgnoreSuccess(c, success) == ShowSucceeded(c)

\* function (success) { if (success) {...} else { dfd.resolve(false); } }
ActivateContinuation(c, success) ==
    IF success THEN ShowSucceeded(c) ELSE ShowDeclined(c)

\* dialogActivator.activateItem(instance, activationData) answers; the fresh
\* activator may accept or decline, and holds the instance active if it accepts.
ActivateItemDone(c, success) ==
    /\ c \in Calls
    /\ shows[c].stage = "activating"
    /\ activeItem' = [activeItem EXCEPT ![c] = success]
    /\ shows' = [shows EXCEPT ![c].stage = IF success THEN "shown" ELSE "declined"]
    /\ ActivateContinuation(c, success)
    /\ UNCHANGED <<contexts, helpers, ctxName, MessageBox, app, messageBoxes,
                   hist, pending, apiCalls>>

\* theDialog.close(args...): asks the activator to deactivate the instance and
\* returns; the continuation runs when the activator answers.
SessionClose(c, args) ==
    /\ pending' = pending (+) SetToBag({[call |-> c, args |-> args]})
    /\ apiCalls' = apiCalls + 1
    /\ UNCHANGED <<contexts, helpers, ctxName, MessageBox, app, messageBoxes,
                   dialogCount, currentZIndex, dialogOf, shows, dfd,
                   activeItem, theDialog, hooks, hist, htmlOverflowHidden,
                   bodyMarginRight, zLog>>

close_Unguarded(obj, args) == SessionClose(getDialog(obj), args)

\* dialog.close(obj, args...): forwards to the close of obj's dialog, if any
close(obj, args) ==
    IF getDialog(obj) # Undefined
    THEN SessionClose(getDialog(obj), args)
    ELSE /\ apiCalls' = apiCalls + 1
         /\ UNCHANGED <<contexts, helpers, ctxName, MessageBox, app, messageBoxes,
                   dialogCount, currentZIndex, dialogOf, shows, dfd,
                        activeItem, theDialog, hooks, hist, pending,
                        htmlOverflowHidden, bodyMarginRight, zLog>>

\* A call of dialog.close by application code
Close(obj, args) ==
    /\ apiCalls < MaxCalls
    /\ close(obj, args)

\* A call of the close function of a Session somebody kept: the blockout's
\* click handler of an autoclose view, or a caller that kept getDialog's result.
HandleClose(c, args) ==
    /\ c \in Calls
    /\ shows[c].stage = "shown"
    /\ apiCalls < MaxCalls
    /\ SessionClose(c, args)

\* The continuation of deactivateItem when closeSuccess is true (lines 214-217)
CloseSucceeded(c, args) ==
    /\ dialogCount' = dialogCount - 1
    /\ dialogContextRemoveHost(c)
    /\ hooks' = [hooks EXCEPT ![c].removeHost = @ + 1,
                              ![c].removeHostOn = shows[c].context]
    /\ dialogOf' = [dialogOf EXCEPT ![shows[c].instance] = Undefined]
    /\ dfd' = [dfd EXCEPT ![c] = DfdResolve(@, args)]

CloseContinuation_IgnoreSuccess(c, args, closeSuccess) == CloseSucceeded(c, args)

CloseContinuation_KeepDialog(c, args, closeSuccess) ==
    IF closeSuccess
    THEN /\ dialogCount' = dialogCount - 1
         /\ removeHost(c)
         /\ hooks' = [hooks EXCEPT ![c].removeHost = @ + 1]
         /\ dfd' = [dfd EXCEPT ![c] = DfdResolve(@, args)]
         /\ UNCHANGED dialogOf
    ELSE UNCHANGED <<dialogCount, dialogOf, dfd, hooks, theDialog,
                     htmlOverflowHidden, bodyMarginRight>>

CloseContinuation_UnmountOnDecline(c, args, closeSuccess) ==
    IF closeSuccess
    THEN CloseSucceeded(c, args)
    ELSE /\ UNCHANGED <<dialogCount, dialogOf, dfd>>
         /\ removeHost(c)
         /\ hooks' = [hooks EXCEPT ![c].removeHost = @ + 1]

CloseContinuation_ResolveOnDecline(c, args, closeSuccess) ==
    IF closeSuccess
    THEN CloseSucceeded(c, args)
    ELSE /\ dfd' = [dfd EXCEPT ![c] = DfdResolve(@, args)]
         /\ UNCHANGED <<dialogCount, dialogOf, hooks, theDialog,
                        htmlOverflowHidden, bodyMarginRight>>

CloseContinuation_DetachAll(c, args, closeSuccess) ==
    IF closeSuccess
    THEN /\ dialogCount' = dialogCount - 1
         /\ removeHost(c)
         /\ hooks' = [hooks EXCEPT ![c].removeHost = @ + 1]
         /\ dialogOf' = [o \in DOMAIN dialogOf |-> Undefined]
         /\ dfd' = [dfd EXCEPT ![c] = DfdResolve(@, args)]
    ELSE UNCHANGED <<dialogCount, dialogOf, dfd, hooks, theDialog,
                     htmlOverflowHidden, bodyMarginRight>>

\* function (closeSuccess) { if (closeSuccess) {...} }
CloseContinuation(c, args, closeSuccess) ==
    IF closeSuccess
    THEN CloseSucceeded(c, args)
    ELSE UNCHANGED <<dialogCount, dialogOf, dfd, hooks, theDialog,
                     htmlOverflowHidden, bodyMarginRight>>

\* dialogActivator.deactivateItem(instance, true) answers one request
DeactivateItemDone(r, closeSuccess) ==
    /\ BagIn(r, pending)
    /\ closeSuccess \in DeactivationAnswers(r.call)
    /\ pending' = pending (-) SetToBag({r})
    /\ activeItem' = [activeItem EXCEPT ![r.call] = @ /\ ~closeSuccess]
    /\ hist' = [hist EXCEPT ![r.call] =
                  IF closeSuccess
                  THEN [@ EXCEPT !.accepted = @ + 1]
                  ELSE [@ EXCEPT !.declined = TRUE]]
    /\ CloseContinuation(r.call, r.args, closeSuccess)
    /\ UNCHANGED <<contexts, helpers, ctxName, MessageBox, app, messageBoxes,
                   currentZIndex, shows, zLog, apiCalls>>

\* A call of dialog.getNextZIndex() by code outside the plugin
GetNextZIndex ==
    /\ apiCalls < MaxCalls
    /\ apiCalls' = apiCalls + 1
    /\ currentZIndex' = getNextZIndex(currentZIndex).currentZIndex
    /\ zLog' = Append(zLog, getNextZIndex(currentZIndex).value)
    /\ UNCHANGED <<contexts, helpers, ctxName, MessageBox, app, messageBoxes,
                   dialogCount, dialogOf, shows, dfd, activeItem,
                   theDialog, hooks, hist, pending, htmlOverflowHidden,
                   bodyMarginRight>>

\* addContext(name, dialogContext)
addContext(name, dialogContext) ==
    /\ ctxName' = [ctxName EXCEPT ![dialogContext] = name]
    /\ contexts' = [n \in DOMAIN contexts \cup {name} |->
                       IF n = name THEN dialogContext ELSE contexts[n]]
    /\ helpers' = [h \in DOMAIN helpers \cup {helperName(name)} |->
                      IF h = helperName(name) THEN name ELSE helpers[h]]

\* A call of dialog.addContext by application code
AddContext(name, dialogContext) ==
    /\ apiCalls < MaxCalls
    /\ apiCalls' = apiCalls + 1
    /\ addContext(name, dialogContext)
    /\ UNCHANGED <<MessageBox, app, messageBoxes, dialogCount, currentZIndex,
                   dialogOf, shows, dfd, activeItem, theDialog, hooks, hist,
                   pending, htmlOverflowHidden, bodyMarginRight, zLog>>

\* A call of a helper addContext installed: this.show(obj, activationData, name)
ShowHelper(h, obj) ==
    /\ h \in DOMAIN helpers
    /\ Len(shows) < MaxShows
    /\ dialogShow(obj, NoData, helpers[h])
    /\ UNCHANGED <<contexts, helpers, ctxName, MessageBox, app, messageBoxes,
                   dialogCount, currentZIndex, dialogOf, pending,
                   htmlOverflowHidden, bodyMarginRight, zLog, apiCalls>>

NewMessageBox_NoDefaults(message, title, options) ==
    [message |-> message, title |-> title, options |-> options]

\* new MessageBox(message, title, options)
NewMessageBox(message, title, options) ==
    [message |-> message,
     title |-> IF Falsy(title) THEN defaultTitle ELSE title,
     options |-> IF options = NoOptions THEN defaultOptions ELSE options]

\* showMessage(message, title, options)
showMessage(message, title, options) ==
    IF isString(MessageBox.value)
    THEN /\ dialogShow(MessageBox.value,
                      <<message,
                        IF Falsy(title) THEN defaultTitle ELSE title,
                        IF options = NoOptions THEN defaultOptions ELSE options>>,
                      Omitted)
         /\ UNCHANGED messageBoxes
    ELSE /\ messageBoxes' = messageBoxes @@
               (MessageBoxId(Len(shows) + 1) :>
                   NewMessageBox(message, title, options))
         /\ dialogShow(MessageBoxId(Len(shows) + 1), NoData, Omitted)

\* A call of dialog.showMessage by application code
ShowMessage(message, title, options) ==
    /\ Len(shows) < MaxShows
    /\ showMessage(message, title, options)
    /\ UNCHANGED <<contexts, helpers, ctxName, MessageBox, app, dialogCount,
                   currentZIndex, dialogOf, pending, htmlOverflowHidden,
                   bodyMarginRight, zLog, apiCalls>>

\* MessageBox.prototype.selectOption(dialogResult), called on the box b
selectOption(b, dialogResult) == close(b, <<dialogResult>>)

\* The user picks an option of a message box that was constructed
SelectOption(b, dialogResult) ==
    /\ b \in DOMAIN messageBoxes
    /\ apiCalls < MaxCalls
    /\ selectOption(b, dialogResult)

\* install(config): app gets showDialog and showMessage, config.messageBox
\* replaces dialog.MessageBox, and config.messageBoxView replaces the getView of
\* its prototype (a moduleId has no prototype: the assignment throws).
install(config) ==
    LET value == IF config.messageBox # Omitted THEN config.messageBox
                                                ELSE MessageBox.value
    IN  /\ app' = [showDialog |-> TRUE, showMessage |-> TRUE]
        /\ MessageBox' =
              [value |-> value,
               getView |-> IF config.messageBoxView /\ ~isString(value)
                           THEN "messageBoxView" ELSE MessageBox.getView]

\* A call of dialog.install by the application
Install(config) ==
    /\ apiCalls < MaxCalls
    /\ apiCalls' = apiCalls + 1
    /\ install(config)
    /\ UNCHANGED <<contexts, helpers, ctxName, messageBoxes, dialogCount,
                   currentZIndex, dialogOf, shows, dfd, activeItem, theDialog,
                   hooks, hist, pending, htmlOverflowHidden, bodyMarginRight,
                   zLog>>

Next ==
    \/ \E obj \in Owners \cup ModuleIds, context \in {Omitted, "default"} :
          Show(obj, context)
    \/ \E c \in Calls, ok \in BOOLEAN : AcquireDone(c, ok)
    \/ \E c \in Calls, success \in BOOLEAN : ActivateItemDone(c, success)
    \/ \E obj \in Owners \cup {Null}, args \in Args : Close(obj, args)
    \/ \E c \in Calls, args \in Args : HandleClose(c, args)
    \/ \E r \in BagToSet(pending), closeSuccess \in BOOLEAN :
          DeactivateItemDone(r, closeSuccess)
    \/ GetNextZIndex

Spec == Init /\ [][Next]_vars

\* The plugin with contexts of the application: addContext, its helpers, and
\* show in any registered context
NextContexts ==
    \/ Next
    \/ \E name \in ContextNames, dialogContext \in CustomContexts :
          AddContext(name, dialogContext)
    \/ \E h \in DOMAIN helpers, obj \in Owners : ShowHelper(h, obj)
    \/ \E obj \in Owners, context \in DOMAIN contexts : Show(obj, context)

SpecContexts == Init /\ [][NextContexts]_vars

\* The plugin used through showMessage and the message box's selectOption
NextMessage ==
    \/ \E messageBox \in {Omitted} \cup ModuleIds, messageBoxView \in BOOLEAN :
          Install([messageBox |-> messageBox, messageBoxView |-> messageBoxView])
    \/ \E a \in MessageArgs : ShowMessage(a[1], a[2], a[3])
    \/ \E c \in Calls, ok \in BOOLEAN : AcquireDone(c, ok)
    \/ \E c \in Calls, success \in BOOLEAN : ActivateItemDone(c, success)
    \/ \E b \in DOMAIN messageBoxes, dialogResult \in Choices :
          SelectOption(b, dialogResult)
    \/ \E r \in BagToSet(pending), closeSuccess \in BOOLEAN :
          DeactivateItemDone(r, closeSuccess)

\* The page's body has no inline margin
InitMessage == Init /\ bodyMarginRight = NoMargin

SpecMessage == InitMessage /\ [][NextMessage]_vars

\* ------------------------------------------------------------ properties
\* A Session is live from its creation (activation accepted) until the
\* activator accepts a deactivation of it.
Live(c) == shows[c].stage = "shown" /\ hist[c].accepted = 0

\* The activator accepts, in this step, the deactivation request r
Accepts(r) ==
    /\ BagIn(r, pending)
    /\ pending' = pending (-) SetToBag({r})
    /\ hist'[r.call].accepted = hist[r.call].accepted + 1

\* The activator declines, in this step, the deactivation request r
Declines(r) ==
    /\ BagIn(r, pending)
    /\ pending' = pending (-) SetToBag({r})
    /\ hist'[r.call].accepted = hist[r.call].accepted

\* The activator declines, in this step, the activation of call c
DeclinesActivation(c) ==
    shows[c].stage = "activating" /\ shows'[c].stage = "declined"

Resolved(args) == [state |-> "resolved", value |-> args]

\* C1: the future of every show call is settled at most once (a settled future
\* never changes again), and the step that settles it either is the activator
\* declining that call's activation, with value false, or is the activator
\* accepting a deactivation requested by a close of that call's Session, with
\* value the arguments of that close.
C1_SettledAtMostOnce ==
    [][\A c \in Calls :
          /\ dfd[c].state # "pending" => dfd'[c] = dfd[c]
          /\ (dfd[c].state = "pending" /\ dfd'[c].state # "pending") =>
                \/ DeclinesActivation(c) /\ dfd'[c] = Resolved(FalseArgs)
                \/ \E r \in BagToSet(pending) :
                      r.call = c /\ Accepts(r) /\ dfd'[c] = Resolved(r.args)]_vars

C1_Witness ==
    \E c \in Calls :
        dfd[c] = Resolved(<<"X">>) /\ hist[c].accepted = 2

\* C2: in every reachable state dialogCount equals the number of live Sessions
C2_CountEqualsLiveSessions ==
    dialogCount = Cardinality({c \in Calls : Live(c)})

C4_ShowThenClose ==
    [][\A r \in BagToSet(pending) :
          (Accepts(r) /\ hist[r.call].accepted = 0 /\ ~hist[r.call].declined) =>
             /\ dfd[r.call].state = "pending"
             /\ dfd'[r.call] = Resolved(r.args)
             /\ getDialog(shows[r.call].instance)' = Undefined]_vars

C4_Witness ==
    \E c \in Calls :
        /\ dfd[c] = Resolved(<<"X">>)
        /\ hist[c] = [accepted |-> 1, declined |-> FALSE]
        /\ getDialog(shows[c].instance) = Undefined
        /\ apiCalls = 1

\* C5: when the activator declines the activation of a show call, the call's
\* future is resolved with false, dialogCount, isOpen() and every owner's
\* Session stay as they were, and neither addHost nor the compositor is ever
\* invoked for that call, which has no host or blockout.
C5_ActivationDeclined ==
    [][\A c \in Calls :
          /\ DeclinesActivation(c) =>
                /\ dfd'[c] = Resolved(FalseArgs)
                /\ dialogCount' = dialogCount
                /\ isOpen' = isOpen
                /\ dialogOf' = dialogOf
          /\ shows'[c].stage = "declined" =>
                /\ hooks'[c].addHost = 0
                /\ hooks'[c].compose = 0
                /\ theDialog'[c] = NoDialog]_vars

C5_Witness ==
    \E c, d \in Calls :
        /\ shows[c].stage = "declined"
        /\ dfd[c] = Resolved(FalseArgs)
        /\ Live(d)
        /\ shows[d].instance = shows[c].instance
        /\ dialogCount = 1

\* C6: a close call whose deactivation request the activator declines changes
\* nothing, neither when it is made nor when it is answered: dialogCount, every
\* owner's Session, every host and blockout, the document's scroll lock and
\* margin and every future are as before, and removeHost is not invoked.
C6_DeactivationDeclined ==
    [][(pending' # pending /\ \A c \in Calls : hist'[c].accepted = hist[c].accepted) =>
          /\ UNCHANGED <<dialogCount, dialogOf, theDialog, dfd, htmlOverflowHidden,
                         bodyMarginRight, currentZIndex>>
          /\ \A c \in Calls : hooks'[c] = hooks[c]]_vars

C6_Witness ==
    \E c \in Calls :
        /\ hist[c] = [accepted |-> 0, declined |-> TRUE]
        /\ pending = EmptyBag
        /\ dfd[c].state = "pending"
        /\ theDialog[c].el = "mounted"
        /\ getDialog(shows[c].instance) = c
        /\ dialogCount = 1

\* C7: a Session one of whose closes was declined and none accepted is still
\* open with its future pending; the next close of it that is accepted detaches
\* the Session, decrements dialogCount, unmounts the host through one removeHost
\* and resolves the future with the arguments of that accepted close.
C7_DeclinedThenAccepted ==
    [][\A c \in Calls :
          (hist[c].declined /\ hist[c].accepted = 0) =>
             /\ dfd[c].state = "pending"
             /\ theDialog[c].el = "mounted"
             /\ \A r \in BagToSet(pending) :
                   (r.call = c /\ Accepts(r)) =>
                      /\ dfd'[c] = Resolved(r.args)
                      /\ dialogOf'[shows[c].instance] = Undefined
                      /\ dialogCount' = dialogCount - 1
                      /\ theDialog'[c].el = "unmounting"
                      /\ hooks'[c].removeHost = 1]_vars

C7_Witness ==
    \E c \in Calls :
        /\ hist[c] = [accepted |-> 1, declined |-> TRUE]
        /\ dfd[c] = Resolved(<<"X">>)
        /\ theDialog[c].el = "unmounting"
        /\ dialogOf[shows[c].instance] = Undefined
        /\ dialogCount = 0

\* An owner none of whose Sessions is live: never shown, declined, or closed
NoOpenSession(obj) ==
    \A c \in Calls : shows[c].instance = obj => ~Live(c)

\* C8: for an owner with no open Session, and for a null owner, getDialog
\* returns none and a close call changes nothing: it requests no deactivation
\* and leaves dialogCount, all Sessions, hosts and futures as they were.
C8_CloseWithoutSession ==
    [][\A obj \in Owners \cup {Null} :
          NoOpenSession(obj) =>
             /\ getDialog(obj) = Undefined
             /\ \A args \in Args :
                   close(obj, args) =>
                      UNCHANGED <<contexts, dialogCount, currentZIndex, dialogOf,
                                  shows, dfd, activeItem, theDialog, hooks, hist,
                                  pending, htmlOverflowHidden, bodyMarginRight,
                                  zLog>>]_vars

C8_Witness ==
    /\ apiCalls = 2
    /\ pending = EmptyBag
    /\ zLog = <<>>
    /\ \E c \in Calls : shows[c].stage = "declined"
    /\ \A c \in Calls : hist[c] = NoHist

\* C9: when the moduleId of a show call cannot be acquired, the call's future
\* is rejected, and nothing is activated, created or mounted for it.
C9_AcquireFailureRejects ==
    \A c \in Calls :
        shows[c].stage = "acquireFailed" =>
           /\ dfd[c].state = "rejected"
           /\ ~activeItem[c]
           /\ hooks[c] = NoHooks
           /\ theDialog[c] = NoDialog

StrictlyIncreasing(seq) ==
    \A i, j \in 1..Len(seq) : i < j => seq[i] < seq[j]

\* C10: the values getNextZIndex returns, whoever calls it, are strictly
\* increasing, and a call from outside changes nothing but currentZIndex.
C10_ZIndexStrictlyIncreasing ==
    [][/\ StrictlyIncreasing(zLog')
       /\ Len(zLog') = Len(zLog) + 1 =>
             /\ zLog'[Len(zLog')] = currentZIndex'
             /\ UNCHANGED <<contexts, dialogCount, dialogOf, shows, dfd, activeItem,
                            theDialog, hooks, hist, pending, htmlOverflowHidden,
                            bodyMarginRight>>]_vars

C10_Witness ==
    /\ Len(zLog) = 4
    /\ apiCalls = 2
    /\ \E c \in Calls : theDialog[c].blockout = zLog[2] /\ theDialog[c].host = zLog[3]
    /\ pending = EmptyBag

\* C11: in a show call addHost is invoked only in the step in which the
\* activator accepts the activation, the compositor is invoked only with the
\* host addHost has produced, and in a close call removeHost is invoked only
\* in a step in which the activator accepts a deactivation of that Session.
C11_HookOrder ==
    [][\A c \in Calls :
          /\ hooks'[c].addHost > hooks[c].addHost =>
                /\ shows[c].stage = "activating"
                /\ shows'[c].stage = "shown"
                /\ activeItem'[c]
          /\ hooks'[c].compose > hooks[c].compose =>
                /\ hooks'[c].addHost >= hooks'[c].compose
                /\ theDialog'[c].el = "mounted"
                /\ hooks'[c].composeHost = theDialog'[c].host
                /\ hooks'[c].composeHost # NoDialog.host
          /\ hooks'[c].removeHost > hooks[c].removeHost =>
                \E r \in BagToSet(pending) : r.call = c /\ Accepts(r)]_vars

C11_Witness ==
    \E c \in Calls :
        /\ hooks[c].addHost = 1
        /\ hooks[c].compose = 1
        /\ hooks[c].removeHost = 1
        /\ hooks[c].composeHost = theDialog[c].host
        /\ hist[c].declined

\* C12: no owner ever has two live Sessions, nor two mounted hosts, and a
\* Session is attached to an owner only while it is live.
C12_OneSessionPerOwner ==
    \A o \in Owners :
        /\ Cardinality({c \in Calls : shows[c].instance = o /\ Live(c)}) <= 1
        /\ Cardinality({c \in Calls : shows[c].instance = o
                                        /\ theDialog[c].el = "mounted"}) <= 1
        /\ dialogOf[o] # Undefined => Live(dialogOf[o])

\* C19: dialogCount is never negative
C19_CountNeverNegative == dialogCount >= 0

\* The Session whose addHost made the latest record of the body's margin
LastRecorded ==
    CHOOSE c \in Calls :
        /\ theDialog[c].recorded
        /\ \A d \in Calls : theDialog[d].recorded => hooks[d].order <= hooks[c].order

\* The Session of call c is mounted in this step
Mounted(c) == theDialog[c].el = "absent" /\ theDialog'[c].el = "mounted"

\* C15: a dialog mounted while no other is open records the body's margin and
\* locks the scroll, and one mounted while another is open records nothing and
\* changes neither lock nor margin; closing a dialog while another stays open
\* changes neither, and closing the last open one releases the lock and puts
\* back the margin recorded at the first open.
C15_ScrollLock ==
    [][/\ \A c \in Calls :
             Mounted(c) =>
                IF \E d \in Calls : Live(d)
                THEN /\ ~theDialog'[c].recorded
                     /\ UNCHANGED <<htmlOverflowHidden, bodyMarginRight>>
                ELSE /\ theDialog'[c].recorded
                     /\ theDialog'[c].oldInlineMarginRight = bodyMarginRight
                     /\ htmlOverflowHidden'
       /\ \A r \in BagToSet(pending) :
             Accepts(r) =>
                IF \E d \in Calls \ {r.call} : Live(d)
                THEN UNCHANGED <<htmlOverflowHidden, bodyMarginRight>>
                ELSE Live(r.call) =>
                        /\ ~htmlOverflowHidden'
                        /\ bodyMarginRight' =
                              theDialog[LastRecorded].oldInlineMarginRight]_vars

\* C16: a dialog mounted by the default context has its host above its own
\* blockout, and both above the host and blockout of every dialog mounted before.
C16_StackingOrder ==
    [][\A c \in Calls :
          Mounted(c) =>
             /\ theDialog'[c].host > theDialog'[c].blockout
             /\ \A d \in Calls \ {c} :
                   theDialog[d].el # "absent" =>
                      /\ theDialog'[c].blockout > theDialog[d].host
                      /\ theDialog'[c].blockout > theDialog[d].blockout]_vars

C16_Witness ==
    \E c, d \in Calls :
        /\ theDialog[c].el = "mounted"
        /\ theDialog[d].el = "mounted"
        /\ theDialog[c].blockout < theDialog[c].host
        /\ theDialog[c].host < theDialog[d].blockout
        /\ theDialog[d].blockout < theDialog[d].host

\* C17 as claimed: of two show calls whose activations are both accepted, the
\* one called first gets the smaller z-index values.
C17_ZOrderIsCallOrder ==
    \A c, d \in Calls :
        (c < d /\ shows[c].stage = "shown" /\ shows[d].stage = "shown") =>
           /\ theDialog[c].host < theDialog[d].blockout
           /\ theDialog[c].blockout < theDialog[d].blockout

\* C17, amended: of two show calls whose activations are both accepted, the one
\* whose activation is accepted first (whose addHost runs first) gets the smaller
\* z-index values, whichever show was called first.
C17_ZOrderIsMountOrder ==
    \A c, d \in Calls :
        (shows[c].stage = "shown" /\ shows[d].stage = "shown"
           /\ hooks[c].order < hooks[d].order) =>
           /\ theDialog[c].host < theDialog[d].blockout
           /\ theDialog[c].blockout < theDialog[d].blockout

C17_Witness ==
    \E c, d \in Calls :
        /\ c < d
        /\ shows[c].instance # shows[d].instance
        /\ shows[c].stage = "shown" /\ shows[d].stage = "shown"
        /\ hooks[d].order < hooks[c].order
        /\ theDialog[d].host < theDialog[c].blockout

\* The calls whose instance is another object than that of call a
OtherOwners(a) ==
    {b \in Calls : shows[b].instance # shows[a].instance}

\* C18: a close of one owner, when requested and when answered (accepted or
\* declined), leaves the future, the Session, the hooks and the back-reference
\* of every call of another owner as they were, and lowers dialogCount by one
\* at most.
C18_OwnersIndependent ==
    [][\A a \in Calls :
          (\E args \in Args :
              LET r == [call |-> a, args |-> args]
              IN  \/ pending' = pending (+) SetToBag({r})
                  \/ BagIn(r, pending) /\ pending' = pending (-) SetToBag({r})) =>
             /\ \A b \in OtherOwners(a) :
                   /\ dfd'[b] = dfd[b]
                   /\ theDialog'[b] = theDialog[b]
                   /\ hooks'[b] = hooks[b]
                   /\ hist'[b] = hist[b]
                   /\ shows[b].instance \in Owners =>
                         dialogOf'[shows[b].instance] = dialogOf[shows[b].instance]
             /\ dialogCount' \in {dialogCount, dialogCount - 1}]_vars

C18_Witness ==
    \E a, b \in Calls :
        /\ shows[a].instance # shows[b].instance
        /\ hist[a].accepted = 1
        /\ dfd[a].state = "resolved"
        /\ Live(b)
        /\ dfd[b].state = "pending"
        /\ dialogOf[shows[b].instance] = b
        /\ theDialog[b].el = "mounted"
        /\ hooks[b].order < hooks[a].order

\* The show call made by the step, and the MessageBox object it constructed
NewCall == Len(shows')

\* A deactivation requested for the Session of message box b, with the option
\* picked as its only argument
Picked(b, dialogResult) == [call |-> dialogOf[b], args |-> <<dialogResult>>]

C14_AddContext ==
    [][\A name \in ContextNames, dialogContext \in CustomContexts :
          AddContext(name, dialogContext) =>
             /\ getContext(name)' = dialogContext
             /\ helperName(name) \in DOMAIN helpers'
             /\ helpers'[helperName(name)] = name
             /\ "show" \notin DOMAIN helpers'
             /\ getContext(Omitted)' = contexts'["default"]
             /\ \A n \in (ContextNames \ {""}) \ DOMAIN contexts' :
                   getContext(n)' = NotFound]_vars

\* C20: the removeHost of a Session's context is invoked once at most, not
\* before the Session's addHost, and on the context object whose addHost was
\* invoked for that Session.
C20_RemoveHostOnce ==
    \A c \in Calls :
        /\ hooks[c].removeHost <= 1
        /\ hooks[c].removeHost > 0 =>
              /\ hooks[c].addHost > 0
              /\ hooks[c].removeHostOn = hooks[c].addHostOn

====
